---- MODULE Spec2Model ----
(***************************************************************************)
(* Model of analyze-otel-patterns.py: the TelemetryAnalyzer that loads the *)
(* recent lines of the telemetry log, reduces them to six pattern flags,   *)
(* picks one coaching message and overwrites the statusline file.          *)
(*                                                                         *)
(* Python values are modelled structurally.  A dict is a record (a         *)
(* function on its keys), so an absent key is a key outside DOMAIN; a list *)
(* is a sequence; a string that the code inspects (a span name) is a       *)
(* sequence of one-character strings.  An exception is a value of the      *)
(* variable raised.                                                        *)
(***************************************************************************)
EXTENDS Integers, Sequences, FiniteSets, TLC

VARIABLES
    logExists,   \* os.path.exists(self.telemetry_log)
    log,         \* the lines of the telemetry log file, in physical order
    clock,       \* datetime.now(), in minutes
    writable,    \* the status directory can be created and the file written
    pc,          \* position of the process
    self,        \* the analyzer's buffers: error_window, activity_window, token_usage
    minutesArg,  \* the window argument of load_recent_telemetry
    telemetry,   \* the list load_recent_telemetry returned
    agg,         \* detect_patterns' locals: tool_errors, tool_successes, unique_tools, total_events
    patterns,    \* the dict detect_patterns returned
    message,     \* the string generate_coaching returned
    status,      \* update_statusline's return value (<<>> before it returns)
    statusFile,  \* the objects held by the status file (<<>> when there is none)
    stdout,      \* the summaries main printed in this process
    raised       \* the exception that ended the call, or "none"

vars == <<logExists, log, clock, writable, pc, self, minutesArg, telemetry, agg,
          patterns, message, status, statusFile, stdout, raised>>

----------------------------------------------------------------------------
(* Python helpers *)

\* dict.get(key, default)
Get(d, key, default) == IF key \in DOMAIN d THEN d[key] ELSE default

\* an empty dict {} / an empty list []
EmptyDict == <<>>

Max(a, b) == IF a >= b THEN a ELSE b

\* str.lower(), character by character
LowerChar(c) ==
    CASE c = "T" -> "t"
      [] c = "O" -> "o"
      [] c = "L" -> "l"
      [] c = "A" -> "a"
      [] c = "B" -> "b"
      [] c = "C" -> "c"
      [] c = "D" -> "d"
      [] c = "E" -> "e"
      [] OTHER -> c

Lower(s) == [i \in 1..Len(s) |-> LowerChar(s[i])]

\* sub in s
Contains(sub, s) ==
    \E i \in 1..(Len(s) - Len(sub) + 1) : SubSeq(s, i, i + Len(sub) - 1) = sub

ToolWord == <<"t", "o", "o", "l">>

----------------------------------------------------------------------------
(* detect_patterns *)

PatternNames ==
    {"error_thrashing", "flow_state", "stuck", "context_pressure", "exploring", "debugging"}

\* lines 45-52: every flag starts False
InitialPatterns == [p \in PatternNames |-> FALSE]

\* lines 55-58
InitialAgg(records) ==
    [tool_errors |-> 0, tool_successes |-> 0, unique_tools |-> {},
     total_events |-> Len(records)]

\* SpanStep if the name were matched without lower()
SpanStep_CaseSensitive(span, acc) ==
    LET name   == Get(span, "name", <<>>)
        st     == Get(span, "status", EmptyDict)
    IN  IF Contains(ToolWord, name)
        THEN IF "code" \in DOMAIN st /\ st["code"] = 2
             THEN [acc EXCEPT !.unique_tools = @ \cup {name}, !.tool_errors = @ + 1]
             ELSE [acc EXCEPT !.unique_tools = @ \cup {name}, !.tool_successes = @ + 1]
        ELSE acc

\* lines 67-75: one span of a traces record
SpanStep(span, acc) ==
    LET name   == Get(span, "name", <<>>)
        st     == Get(span, "status", EmptyDict)
    IN  IF Contains(ToolWord, Lower(name))
        THEN IF "code" \in DOMAIN st /\ st["code"] = 2
             THEN [acc EXCEPT !.unique_tools = @ \cup {name}, !.tool_errors = @ + 1]
             ELSE [acc EXCEPT !.unique_tools = @ \cup {name}, !.tool_successes = @ + 1]
        ELSE acc

\* line 66: for span in ss.get('spans', [])
RECURSIVE WalkSpans(_, _)
WalkSpans(spans, acc) ==
    IF spans = <<>> THEN acc
    ELSE WalkSpans(Tail(spans), SpanStep(Head(spans), acc))

\* line 65: for ss in rs.get('scopeSpans', [])
RECURSIVE WalkScopeSpans(_, _)
WalkScopeSpans(sss, acc) ==
    IF sss = <<>> THEN acc
    ELSE WalkScopeSpans(Tail(sss), WalkSpans(Get(Head(sss), "spans", <<>>), acc))

\* line 64: for rs in data.get('resourceSpans', [])
RECURSIVE WalkResourceSpans(_, _)
WalkResourceSpans(rss, acc) ==
    IF rss = <<>> THEN acc
    ELSE WalkResourceSpans(Tail(rss),
                           WalkScopeSpans(Get(Head(rss), "scopeSpans", <<>>), acc))

\* lines 61-85: one record.  entry['type'] is a subscript, not a get: an entry
\* without the key raises KeyError.  The metrics branch walks the metric names
\* and does nothing with them.
EntryStep(entry, acc) ==
    IF "type" \notin DOMAIN entry
    THEN [raised |-> "KeyError", acc |-> acc]
    ELSE IF entry["type"] = "traces"
         THEN [raised |-> "none",
               acc |-> WalkResourceSpans(
                           Get(Get(entry, "data", EmptyDict), "resourceSpans", <<>>), acc)]
         ELSE [raised |-> "none", acc |-> acc]

\* line 60: for entry in telemetry; an exception ends the loop
RECURSIVE WalkEntries(_, _)
WalkEntries(records, acc) ==
    IF records = <<>> THEN [raised |-> "none", acc |-> acc]
    ELSE LET r == EntryStep(Head(records), acc)
         IN  IF r.raised # "none" THEN r ELSE WalkEntries(Tail(records), r.acc)

\* DetectFlags if error thrashing were error_rate >= 0.4
DetectFlags_RateInclusive(a) ==
    LET errors    == a.tool_errors
        successes == a.tool_successes
        tools     == Cardinality(a.unique_tools)
        total     == a.total_events
        denom     == Max(errors + successes, 1)
    IN  [InitialPatterns EXCEPT
            !["error_thrashing"] = (10 * errors >= 4 * denom /\ errors >= 3),
            !["flow_state"] = (successes >= 5 /\ tools >= 3 /\ 10 * errors < denom),
            !["stuck"] = (total < 5 \/ (tools = 1 /\ total > 3)),
            !["exploring"] = (tools >= 5),
            !["debugging"] = (errors >= 2 /\ successes >= 2)]

\* DetectFlags if flow state did not look at the error rate
DetectFlags_FlowIgnoresRate(a) ==
    LET errors    == a.tool_errors
        successes == a.tool_successes
        tools     == Cardinality(a.unique_tools)
        total     == a.total_events
        denom     == Max(errors + successes, 1)
    IN  [InitialPatterns EXCEPT
            !["error_thrashing"] = (10 * errors > 4 * denom /\ errors >= 3),
            !["flow_state"] = (successes >= 5 /\ tools >= 3),
            !["stuck"] = (total < 5 \/ (tools = 1 /\ total > 3)),
            !["exploring"] = (tools >= 5),
            !["debugging"] = (errors >= 2 /\ successes >= 2)]

\* DetectFlags if stuck were only the repetitive-tool case
DetectFlags_StuckOnlyRepetitive(a) ==
    LET errors    == a.tool_errors
        successes == a.tool_successes
        tools     == Cardinality(a.unique_tools)
        total     == a.total_events
        denom     == Max(errors + successes, 1)
    IN  [InitialPatterns EXCEPT
            !["error_thrashing"] = (10 * errors > 4 * denom /\ errors >= 3),
            !["flow_state"] = (successes >= 5 /\ tools >= 3 /\ 10 * errors < denom),
            !["stuck"] = (tools = 1 /\ total > 3),
            !["exploring"] = (tools >= 5),
            !["debugging"] = (errors >= 2 /\ successes >= 2)]

\* lines 88-108.  error_rate = tool_errors / max(tool_errors + tool_successes, 1)
\* is a quotient of two small integers, so error_rate > 0.4 and error_rate < 0.1
\* are decided exactly by cross-multiplication.
DetectFlags(a) ==
    LET errors    == a.tool_errors
        successes == a.tool_successes
        tools     == Cardinality(a.unique_tools)
        total     == a.total_events
        denom     == Max(errors + successes, 1)
    IN  [InitialPatterns EXCEPT
            !["error_thrashing"] = (10 * errors > 4 * denom /\ errors >= 3),
            !["flow_state"] = (successes >= 5 /\ tools >= 3 /\ 10 * errors < denom),
            !["stuck"] = (total < 5 \/ (tools = 1 /\ total > 3)),
            !["exploring"] = (tools >= 5),
            !["debugging"] = (errors >= 2 /\ successes >= 2)]

\* lines 43-110
DetectPatterns(records) ==
    LET w == WalkEntries(records, InitialAgg(records))
    IN  IF w.raised # "none"
        THEN [raised |-> w.raised, agg |-> w.acc, patterns |-> InitialPatterns]
        ELSE [raised |-> "none", agg |-> w.acc, patterns |-> DetectFlags(w.acc)]

----------------------------------------------------------------------------
(* generate_coaching *)

MsgThrashing == "Multiple errors detected. Try: vibecheck?"
MsgQuiet     == "Seems quiet. Need help exploring options?"
MsgFlow      == "Great momentum! Keep going!"
MsgDebugging == "Debugging mode. Remember: test as you go"
MsgExploring == "Exploring well! Focus emerging?"
MsgTokens    == "High token usage. Consider summarizing"
MsgReady     == "Ready to assist"
NoMessage    == ""

\* generate_coaching if the positive signal were tested first
GenerateCoaching_FlowFirst(p) ==
    IF p["flow_state"] THEN MsgFlow
    ELSE IF p["error_thrashing"] THEN MsgThrashing
    ELSE IF p["stuck"] THEN MsgQuiet
    ELSE IF p["debugging"] THEN MsgDebugging
    ELSE IF p["exploring"] THEN MsgExploring
    ELSE IF p["context_pressure"] THEN MsgTokens
    ELSE MsgReady

\* lines 112-135
GenerateCoaching(p) ==
    IF p["error_thrashing"] THEN MsgThrashing
    ELSE IF p["stuck"] THEN MsgQuiet
    ELSE IF p["flow_state"] THEN MsgFlow
    ELSE IF p["debugging"] THEN MsgDebugging
    ELSE IF p["exploring"] THEN MsgExploring
    ELSE IF p["context_pressure"] THEN MsgTokens
    ELSE MsgReady

----------------------------------------------------------------------------
(* load_recent_telemetry *)

\* update_statusline passes minutes=5 (also the parameter's default)
WindowMinutes == 5

\* One line of the log file, line.syntax says what json.loads makes of it:
\*   "undecodable"  bytes that are not valid UTF-8 (a line cut inside a character)
\*   "malformed"    text that is not JSON
\*   "array"        JSON that is not an object
\*   "object"       a JSON object, line.value
\* A timestamp value is [iso, t, tz]: whether datetime.fromisoformat accepts the
\* string, the instant it denotes (minutes) and whether it carries a UTC offset.

\* lines 33-39: the body of the loop, for a line the file iterator delivered.
\* Every exception inside the try is swallowed by the bare except.
LineStep(line, cutoff, recent) ==
    IF line.syntax # "object" THEN recent                  \* json.loads / subscript raises
    ELSE IF "timestamp" \notin DOMAIN line.value THEN recent   \* KeyError
    ELSE LET ts == line.value["timestamp"]
         IN  IF ~ts.iso THEN recent                        \* ValueError
             ELSE IF ts.tz THEN recent                     \* aware > naive: TypeError
             ELSE IF ts.t > cutoff THEN Append(recent, line.value)
             ELSE recent

\* lines 31-32: for line in f.  The iterator decodes the file as text outside
\* the try, so bytes that do not decode raise UnicodeDecodeError out of the call.
RECURSIVE ScanLines(_, _, _)
ScanLines(lines, cutoff, recent) ==
    IF lines = <<>> THEN [raised |-> "none", recent |-> recent]
    ELSE IF \E i \in 1..Len(lines) : lines[i].syntax = "undecodable"
         THEN [raised |-> "UnicodeDecodeError", recent |-> <<>>]
         ELSE ScanLines(Tail(lines), cutoff, LineStep(Head(lines), cutoff, recent))

\* lines 23-41
LoadRecentTelemetry(exists, lines, now, minutes) ==
    IF ~exists THEN [raised |-> "none", recent |-> <<>>]
    ELSE ScanLines(lines, now - minutes, <<>>)

----------------------------------------------------------------------------
(* update_statusline and main *)

\* lines 19-21: three empty bounded deques
InitialBuffers == [error_window |-> <<>>, activity_window |-> <<>>, token_usage |-> <<>>]

\* BuildStatus if the status carried the initial flags instead of the detected
BuildStatus_InitialFlags(now, msg, flags, records) ==
    [timestamp |-> now, message |-> msg, patterns |-> InitialPatterns,
     telemetry_count |-> Len(records)]

\* lines 149-154
BuildStatus(now, msg, flags, records) ==
    [timestamp |-> now, message |-> msg, patterns |-> flags,
     telemetry_count |-> Len(records)]

\* WriteStatusFile if the file were opened for appending
WriteStatusFile_Append(old, st) == Append(old, st)

\* lines 157-158: open(self.status_file, 'w') truncates, json.dump writes one object
WriteStatusFile(old, st) == <<st>>

\* lines 167-178: what main prints from the returned status
Summary(st) ==
    [timestamp |-> st.timestamp, events |-> st.telemetry_count,
     detected |-> {p \in DOMAIN st.patterns : st.patterns[p]},
     message |-> st.message]

----------------------------------------------------------------------------
(* Inputs: span names, records and log lines the runs are checked on *)

MaxRecords   == 5    \* longest list handed to detect_patterns
MaxLoadLines == 3    \* longest log file handed to load_recent_telemetry alone
MaxLogLines  == 4    \* longest log file of a whole run
MaxClock     == 1    \* the clock runs from 0 to MaxClock

toolA   == <<"t", "o", "o", "l", "A">>
ToolB   == <<"T", "o", "o", "l", "B">>
xTOOLc  == <<"x", "T", "O", "O", "L", "c">>
toolD   == <<"t", "o", "o", "l", "D">>
toolE   == <<"t", "o", "o", "l", "E">>
readN   == <<"r", "e", "a", "d">>
nearN   == <<"t", "o", "_", "o", "l">>
tokenN  == <<"t", "o", "k", "e", "n", "s">>

Span(name, code) == [name |-> name, status |-> [code |-> code]]
OneScope(spans)  == <<[scopeSpans |-> <<[spans |-> spans]>>]>>

\* two failed executions of the same tool
ErrPayload ==
    [type |-> "traces",
     data |-> [resourceSpans |-> OneScope(<<Span(toolA, 2), Span(toolA, 2)>>)]]

\* one failure and two successes (a span without status, a status without
\* code), among spans that are no tool spans: other names, no name at all
MixedPayload ==
    [type |-> "traces",
     data |-> [resourceSpans |-> OneScope(
                  <<[name |-> toolA], Span(readN, 2), [name |-> toolE, status |-> EmptyDict],
                    [status |-> [code |-> 2]], Span(toolA, 2), Span(nearN, 2)>>)]]

\* three successes under three names, spread over two resource groups, beside
\* a scope group without spans and a resource group without scope groups
OkPayload ==
    [type |-> "traces",
     data |-> [resourceSpans |->
                  <<[scopeSpans |-> <<[spans |-> <<Span(ToolB, 1), Span(xTOOLc, 0)>>],
                                      [scope |-> "s"]>>],
                    [resource |-> "r"],
                    [scopeSpans |-> <<[spans |-> <<Span(toolD, 0)>>]>>]>>]]

\* a metrics record with a token metric (and a stray tool span)
MetricsPayload ==
    [type |-> "metrics",
     data |-> [resourceMetrics |-> <<[scopeMetrics |-> <<[metrics |-> <<[name |-> tokenN]>>]>>]>>,
               resourceSpans |-> OneScope(<<Span(toolE, 2)>>)]]

\* a record of another type that carries tool spans
LogsPayload ==
    [type |-> "logs", data |-> [resourceSpans |-> OneScope(<<Span(toolD, 2), Span(toolE, 0)>>)]]

\* a traces record without data
NoDataPayload == [type |-> "traces"]

\* a record without type
NoTypePayload == [data |-> [resourceSpans |-> OneScope(<<Span(toolA, 0)>>)]]

Naive(t)   == [iso |-> TRUE, t |-> t, tz |-> FALSE]
Aware(t)   == [iso |-> TRUE, t |-> t, tz |-> TRUE]
NotIso     == [iso |-> FALSE, t |-> 0, tz |-> FALSE]

\* the entry: a payload with its timestamp key
At(payload, ts) == ("timestamp" :> ts) @@ payload

ObjectLine(entry) == [syntax |-> "object", value |-> entry]
MalformedLine     == [syntax |-> "malformed", value |-> EmptyDict]
ArrayLine         == [syntax |-> "array", value |-> EmptyDict]
UndecodableLine   == [syntax |-> "undecodable", value |-> EmptyDict]

\* the timestamps used: well after every cutoff, and the first cutoff itself
Future   == MaxClock + WindowMinutes
Boundary == 0 - WindowMinutes

\* what load_recent_telemetry can hand to detect_patterns
SampleRecords ==
    {At(p, Naive(Future)) :
        p \in {ErrPayload, MixedPayload, OkPayload, MetricsPayload, LogsPayload,
               NoDataPayload, NoTypePayload}}

\* lines for the loader alone
LoadLines ==
    {ObjectLine(At(ErrPayload, Naive(Future))),
     ObjectLine(At(OkPayload, Naive(Boundary))),
     ObjectLine(At(LogsPayload, Naive(Boundary + 1))),
     ObjectLine(At(MetricsPayload, Aware(Future))),
     ObjectLine(At(NoDataPayload, NotIso)),
     ObjectLine(NoTypePayload),
     MalformedLine, ArrayLine, UndecodableLine}

\* lines appended to the log during whole runs
LogLines ==
    {ObjectLine(At(ErrPayload, Naive(Future))),
     ObjectLine(At(OkPayload, Naive(Future))),
     ObjectLine(At(MixedPayload, Naive(Boundary + 1))),
     ObjectLine(At(NoTypePayload, Naive(Future))),
     MalformedLine, UndecodableLine}

\* the window lengths the loader is called with
WindowChoices == {0, WindowMinutes}

\* all sequences over S of length at most n
BoundedSeq(S, n) == UNION {[1..k -> S] : k \in 0..n}

----------------------------------------------------------------------------
(* The functions called on their own *)

NoRun ==
    /\ self = InitialBuffers
    /\ agg = InitialAgg(<<>>)
    /\ message = NoMessage
    /\ status = <<>>
    /\ statusFile = <<>>
    /\ stdout = <<>>
    /\ raised = "none"

\* analyzer.load_recent_telemetry(minutes)
LoadCall ==
    /\ pc = "load"
    /\ LET r == LoadRecentTelemetry(logExists, log, clock, minutesArg)
       IN  /\ raised' = r.raised
           /\ telemetry' = r.recent
           /\ pc' = IF r.raised = "none" THEN "loaded" ELSE "fault"
    /\ UNCHANGED <<logExists, log, clock, writable, self, minutesArg, agg, patterns,
                   message, status, statusFile, stdout>>

\* analyzer.detect_patterns(telemetry)
DetectCall ==
    /\ pc = "detect"
    /\ LET r == DetectPatterns(telemetry)
       IN  /\ raised' = r.raised
           /\ agg' = r.agg
           /\ patterns' = r.patterns
           /\ pc' = IF r.raised = "none" THEN "coach" ELSE "fault"
    /\ UNCHANGED <<logExists, log, clock, writable, self, minutesArg, telemetry,
                   message, status, statusFile, stdout>>

\* analyzer.generate_coaching(patterns)
CoachCall ==
    /\ pc = "coach"
    /\ message' = GenerateCoaching(patterns)
    /\ pc' = "coached"
    /\ UNCHANGED <<logExists, log, clock, writable, self, minutesArg, telemetry, agg,
                   patterns, status, statusFile, stdout, raised>>

InitLoad ==
    /\ NoRun
    /\ pc = "load"
    /\ logExists \in BOOLEAN
    /\ log \in BoundedSeq(LoadLines, MaxLoadLines)
    /\ (~logExists => log = <<>>)
    /\ clock \in 0..MaxClock
    /\ writable = TRUE
    /\ minutesArg \in WindowChoices
    /\ telemetry = <<>>
    /\ patterns = InitialPatterns

InitDetect ==
    /\ NoRun
    /\ pc = "detect"
    /\ logExists = FALSE
    /\ log = <<>>
    /\ clock = 0
    /\ writable = TRUE
    /\ minutesArg = WindowMinutes
    /\ telemetry \in BoundedSeq(SampleRecords, MaxRecords)
    /\ patterns = InitialPatterns

InitCoach ==
    /\ NoRun
    /\ pc = "coach"
    /\ logExists = FALSE
    /\ log = <<>>
    /\ clock = 0
    /\ writable = TRUE
    /\ minutesArg = WindowMinutes
    /\ telemetry = <<>>
    /\ patterns \in [PatternNames -> BOOLEAN]

NextLoad   == LoadCall
NextDetect == DetectCall \/ CoachCall
NextCoach  == CoachCall

SpecLoad   == InitLoad /\ [][NextLoad]_vars
SpecDetect == InitDetect /\ [][NextDetect]_vars
SpecCoach  == InitCoach /\ [][NextCoach]_vars

----------------------------------------------------------------------------
(* The program: main, run again and again by an external scheduler, beside *)
(* the collector that appends to the log                                   *)

Init ==
    /\ NoRun
    /\ pc = "idle"
    /\ logExists \in BOOLEAN
    /\ log = <<>>
    /\ clock = 0
    /\ writable \in BOOLEAN
    /\ minutesArg = WindowMinutes
    /\ telemetry = <<>>
    /\ patterns = InitialPatterns

\* lines 164, 14-21: a new process constructs its analyzer
Invoke ==
    /\ pc \in {"idle", "done", "fault"}
    /\ pc' = "running"
    /\ self' = InitialBuffers
    /\ telemetry' = <<>>
    /\ agg' = InitialAgg(<<>>)
    /\ patterns' = InitialPatterns
    /\ message' = NoMessage
    /\ status' = <<>>
    /\ stdout' = <<>>
    /\ raised' = "none"
    /\ UNCHANGED <<logExists, log, clock, writable, minutesArg, statusFile>>

\* lines 137-160.  The clock is read at line 28 and again at line 150: the
\* second reading is the first or later.
UpdateStatusline ==
    /\ pc = "running"
    /\ LET ld  == LoadRecentTelemetry(logExists, log, clock, minutesArg)
           dp  == DetectPatterns(ld.recent)
           msg == GenerateCoaching(dp.patterns)
       IN  IF ld.raised # "none"
           THEN /\ raised' = ld.raised
                /\ pc' = "fault"
                /\ UNCHANGED <<clock, telemetry, agg, patterns, message, status, statusFile>>
           ELSE IF dp.raised # "none"
           THEN /\ raised' = dp.raised
                /\ pc' = "fault"
                /\ telemetry' = ld.recent
                /\ agg' = dp.agg
                /\ UNCHANGED <<clock, patterns, message, status, statusFile>>
           ELSE \E later \in {clock, clock + 1} :
                /\ later <= MaxClock
                /\ clock' = later
                /\ telemetry' = ld.recent
                /\ agg' = dp.agg
                /\ patterns' = dp.patterns
                /\ message' = msg
                /\ IF writable
                   THEN /\ statusFile' = WriteStatusFile(statusFile,
                                             BuildStatus(later, msg, dp.patterns, ld.recent))
                        /\ status' = <<BuildStatus(later, msg, dp.patterns, ld.recent)>>
                        /\ raised' = "none"
                        /\ pc' = "updated"
                   ELSE /\ raised' = "OSError"
                        /\ pc' = "fault"
                        /\ UNCHANGED <<status, statusFile>>
    /\ UNCHANGED <<logExists, log, writable, self, minutesArg, stdout>>

\* lines 167-178
PrintSummary ==
    /\ pc = "updated"
    /\ stdout' = Append(stdout, Summary(status[1]))
    /\ pc' = "done"
    /\ UNCHANGED <<logExists, log, clock, writable, self, minutesArg, telemetry, agg,
                   patterns, message, status, statusFile, raised>>

\* the collector appends one line (creating the file when there is none)
AppendLine ==
    /\ Len(log) < MaxLogLines
    /\ \E line \in LogLines : log' = Append(log, line)
    /\ logExists' = TRUE
    /\ UNCHANGED <<clock, writable, pc, self, minutesArg, telemetry, agg, patterns,
                   message, status, statusFile, stdout, raised>>

\* time passes
Tick ==
    /\ clock < MaxClock
    /\ clock' = clock + 1
    /\ UNCHANGED <<logExists, log, writable, pc, self, minutesArg, telemetry, agg,
                   patterns, message, status, statusFile, stdout, raised>>

Next == Invoke \/ UpdateStatusline \/ PrintSummary \/ AppendLine \/ Tick

Spec == Init /\ [][Next]_vars

----------------------------------------------------------------------------
(* Properties *)

PriorityOrder ==
    <<"error_thrashing", "stuck", "flow_state", "debugging", "exploring", "context_pressure">>

MessageFor(name) ==
    CASE name = "error_thrashing"  -> MsgThrashing
      [] name = "stuck"            -> MsgQuiet
      [] name = "flow_state"       -> MsgFlow
      [] name = "debugging"        -> MsgDebugging
      [] name = "exploring"        -> MsgExploring
      [] name = "context_pressure" -> MsgTokens

Messages == {MessageFor(n) : n \in PatternNames} \cup {MsgReady}

\* C1: generate_coaching returns, for every assignment of the six flags, one
\* message: that of the first flag in the priority order that is true, the
\* default message exactly when no flag is true; with error_thrashing and
\* flow_state both true it is the error-thrashing message.
C1_FirstMatchInPriorityOrder ==
    pc = "coached" =>
        /\ message \in Messages
        /\ \A i \in 1..Len(PriorityOrder) :
              (patterns[PriorityOrder[i]] /\ \A j \in 1..(i - 1) : ~patterns[PriorityOrder[j]])
                  => message = MessageFor(PriorityOrder[i])
        /\ (message = MsgReady <=> \A n \in PatternNames : ~patterns[n])
        /\ (patterns["error_thrashing"] /\ patterns["flow_state"] => message = MsgThrashing)

C1_Witness ==
    /\ pc = "coached"
    /\ patterns["error_thrashing"] /\ patterns["flow_state"] /\ patterns["stuck"]
    /\ message = MsgThrashing

\* The tool spans of a list of records, by position: record, resource group,
\* scope group, span.
ResourceSpansOf(e) ==
    IF "data" \in DOMAIN e /\ "resourceSpans" \in DOMAIN e["data"]
    THEN e["data"]["resourceSpans"] ELSE <<>>
ScopeSpansOf(rs) == IF "scopeSpans" \in DOMAIN rs THEN rs["scopeSpans"] ELSE <<>>
SpansOf(ss)      == IF "spans" \in DOMAIN ss THEN ss["spans"] ELSE <<>>

SpanAt(records, x) ==
    SpansOf(ScopeSpansOf(ResourceSpansOf(records[x[1]])[x[2]])[x[3]])[x[4]]

NamesTool(span) ==
    /\ "name" \in DOMAIN span
    /\ \E i \in 1..Len(span["name"]) :
          /\ i + 3 <= Len(span["name"])
          /\ \A j \in 0..3 : span["name"][i + j] \in {ToolWord[j + 1], <<"T", "O", "O", "L">>[j + 1]}

HasErrorCode(span) ==
    /\ "status" \in DOMAIN span
    /\ "code" \in DOMAIN span["status"]
    /\ span["status"]["code"] = 2

ToolSpans(records) ==
    UNION {UNION {UNION {{<<i, r, s, k>> :
                            k \in {k \in 1..Len(SpansOf(ScopeSpansOf(ResourceSpansOf(records[i])[r])[s])) :
                                      NamesTool(SpanAt(records, <<i, r, s, k>>))}} :
                         s \in 1..Len(ScopeSpansOf(ResourceSpansOf(records[i])[r]))} :
                  r \in 1..Len(ResourceSpansOf(records[i]))} :
           i \in {i \in 1..Len(records) : records[i]["type"] = "traces"}}

DetectReturned == pc \in {"coach", "coached"}

\* C2: the flags detect_patterns returns are the fixed rules evaluated on the
\* four aggregated counts (errors, successes, distinct tool names, total): so
\* two inputs with the same counts have the same flags.
C2_FlagsAreRulesOfCounts ==
    DetectReturned =>
        LET errors    == agg.tool_errors
            successes == agg.tool_successes
            tools     == Cardinality(agg.unique_tools)
            total     == agg.total_events
            classified == IF errors + successes >= 1 THEN errors + successes ELSE 1
        IN  /\ DOMAIN patterns = PatternNames
            /\ patterns["error_thrashing"] <=> (errors >= 3 /\ 5 * errors > 2 * classified)
            /\ patterns["flow_state"] <=>
                   (successes >= 5 /\ tools >= 3 /\ 10 * errors < classified)
            /\ patterns["stuck"] <=> (total < 5 \/ (tools = 1 /\ total > 3))
            /\ patterns["exploring"] <=> tools >= 5
            /\ patterns["debugging"] <=> (errors >= 2 /\ successes >= 2)
            /\ patterns["context_pressure"] = FALSE

\* the rate is exactly 0.4 with four errors among ten tool spans: not thrashing
C2_Witness ==
    /\ DetectReturned
    /\ agg.tool_errors = 4 /\ agg.tool_successes = 6
    /\ ~patterns["error_thrashing"] /\ patterns["debugging"]

\* C3 (as claimed): detect_patterns raises no error for any input shape, a
\* record without type included.
C3_NoErrorForAnyShape == raised = "none"

\* C8: errors and successes count the tool spans (name contains "tool" in any
\* case) of the traces records, by status code 2 or not; the name set holds
\* their names; other spans and records of other types count nothing; total is
\* the number of records.
C8_CountsAreToolSpans ==
    DetectReturned =>
        LET T == ToolSpans(telemetry)
        IN  /\ agg.tool_errors = Cardinality({x \in T : HasErrorCode(SpanAt(telemetry, x))})
            /\ agg.tool_successes = Cardinality({x \in T : ~HasErrorCode(SpanAt(telemetry, x))})
            /\ agg.tool_errors + agg.tool_successes = Cardinality(T)
            /\ agg.unique_tools = {SpanAt(telemetry, x)["name"] : x \in T}
            /\ agg.total_events = Len(telemetry)

\* mixed-case names, spans without status, and records of other types that
\* carry tool spans, all in one input
C8_Witness ==
    /\ DetectReturned
    /\ agg.total_events = 4
    /\ agg.tool_errors = 1 /\ agg.tool_successes = 5
    /\ agg.unique_tools = {toolA, toolE, ToolB, xTOOLc, toolD}
    /\ \E i \in 1..Len(telemetry) : telemetry[i]["type"] = "metrics"
    /\ \E i \in 1..Len(telemetry) : telemetry[i]["type"] = "logs"

\* C10: no value detect_patterns returns has error_thrashing and flow_state
\* both true or context_pressure true, and no message is the token message.
C10_ThrashingExcludesFlow ==
    /\ ~(patterns["error_thrashing"] /\ patterns["flow_state"])
    /\ ~patterns["context_pressure"]
    /\ message # MsgTokens

\* thrashing, with the successes and the names flow_state asks for
C10_Witness ==
    /\ pc = "coached"
    /\ patterns["error_thrashing"]
    /\ agg.tool_successes >= 5 /\ Cardinality(agg.unique_tools) >= 3
    /\ message = MsgThrashing

\* a line whose timestamp parses and is strictly after the cutoff
IsRecentLine(line, cutoff) ==
    /\ line.syntax = "object"
    /\ "timestamp" \in DOMAIN line.value
    /\ line.value["timestamp"].iso
    /\ line.value["timestamp"].t > cutoff

RecentRecords(lines, cutoff) ==
    LET kept == SelectSeq(lines, LAMBDA l : IsRecentLine(l, cutoff))
    IN  [i \in 1..Len(kept) |-> kept[i].value]

\* C4 (as claimed): load_recent_telemetry returns exactly the records of the
\* lines whose timestamp is strictly after now - window, in line order; no
\* line stops the scan.
C4_ExactlyTheRecentLines ==
    pc \in {"loaded", "fault"} =>
        /\ raised = "none"
        /\ telemetry = RecentRecords(log, clock - minutesArg)

\* C5 (as claimed): with the status file writable no run ends in a fault.
C5_NoUnrecoveredFault == writable => pc # "fault"

RunCompletes == pc = "running" /\ pc' = "updated"

\* the status of a run over a log and two readings of the clock
FreshStatus(exists, lines, now, later) ==
    LET records == LoadRecentTelemetry(exists, lines, now, WindowMinutes).recent
        flags   == DetectPatterns(records).patterns
    IN  [timestamp |-> later, message |-> GenerateCoaching(flags), patterns |-> flags,
         telemetry_count |-> Len(records)]

\* C6: every completed run leaves in the status file the one status of that
\* run, which is determined by the log and the clock of the run alone; no step
\* changes the analyzer's buffers.
C6_StatelessOverwrite ==
    [][/\ self' = self
       /\ self' = InitialBuffers
       /\ RunCompletes => /\ statusFile' = <<FreshStatus(logExists, log, clock, clock')>>
                          /\ status' = statusFile'
       /\ pc' \in {"updated", "done"} => statusFile' = status']_vars

\* a run that read the clock twice, at 0 and at 1, has loaded two records and
\* completed; main has printed the status it returned
C6_Witness ==
    /\ pc = "done"
    /\ statusFile = status
    /\ status[1].timestamp = 1
    /\ status[1].telemetry_count = 2
    /\ stdout = <<Summary(status[1])>>

StatusShape(countKey) ==
    pc \in {"updated", "done"} =>
        /\ Len(statusFile) = 1
        /\ DOMAIN statusFile[1] = {"timestamp", "message", "patterns", countKey}
        /\ DOMAIN statusFile[1]["patterns"] = PatternNames
        /\ \A n \in PatternNames : statusFile[1]["patterns"][n] \in BOOLEAN
        /\ statusFile[1]["message"] = GenerateCoaching(statusFile[1]["patterns"])
        /\ statusFile[1][countKey] = Len(telemetry)
        /\ statusFile[1]["patterns"] = patterns

OnlyStuck == [InitialPatterns EXCEPT !["stuck"] = TRUE]

\* C9: a run that loads fewer than five records has stuck true and emits the
\* error-thrashing or the quiet message, whatever the other flags; a run over
\* an empty or missing log has stuck as its only flag, the quiet message and
\* count 0.
C9_FewRecordsMeansStuck ==
    [][RunCompletes =>
          /\ Len(telemetry') < 5 =>
                /\ statusFile'[1].patterns["stuck"]
                /\ statusFile'[1].message \in {MsgThrashing, MsgQuiet}
                /\ statusFile'[1].telemetry_count = Len(telemetry')
          /\ (~logExists \/ log = <<>>) =>
                statusFile'[1] = [timestamp |-> clock', message |-> MsgQuiet,
                                  patterns |-> OnlyStuck, telemetry_count |-> 0]]_vars

\* flow_state and exploring are true of four records, and the message is the
\* quiet one
C9_Witness ==
    /\ pc = "updated"
    /\ Len(telemetry) = 4
    /\ patterns["flow_state"] /\ patterns["exploring"] /\ patterns["stuck"]
    /\ statusFile[1].message = MsgQuiet

====
